---- MODULE Spec2Model ----
(***************************************************************************)
(* State-machine model of src/native-main.c: the launcher's main() and its *)
(* "activate" callback on_activate().  The toolkit (GTK / GApplication /    *)
(* WebKit) is the environment: it runs the event loop, emits "activate"    *)
(* while the loop runs, decides the outcome of a URI load and chooses the  *)
(* integer g_application_run() returns.                                    *)
(***************************************************************************)
EXTENDS Integers, Sequences, FiniteSets, TLC

\* ---------------------------------------------------------------- bounds
MaxActivations == 2      \* "activate" emissions the toolkit makes in one run
MaxStatus == 1           \* g_application_run returns a value in 0..MaxStatus
MaxArgs == 1             \* command-line arguments after argv[0]

\* ------------------------------------------------------ program constants
AppId == "com.urmt.FedoraAssistant"
WindowTitle == "Fedora Assistant AI"
DefaultWidth == 1200
DefaultHeight == 800
BundleUri == "file:///usr/share/FedoraAssistant/index.html"

\* ------------------------------------------------------------ input sets
ProgName == "FedoraAssistant"
ArgPool == {"--verbose", "file:///tmp/other.html"}
Statuses == 0 .. MaxStatus
NoStatus == -1           \* an int that has not been assigned yet

ArgLists == UNION {[1 .. n -> ArgPool] : n \in 0 .. MaxArgs}
ArgvChoices == {<<ProgName>> \o a : a \in ArgLists}

VARIABLES
    argvIn,      \* the argument vector the process was started with
    argc, argv,  \* main's parameters
    pc,          \* main's position
    gtkInits,    \* calls of gtk_init so far
    apps,        \* application instances created: sequence of [id, refs]
    unrefs,      \* calls of g_object_unref(app) so far
    handlers,    \* handlers connected to the application's "activate" signal
    runCalls,    \* arguments of each g_application_run call: [argc, argv]
    emitted,     \* "activate" emissions by the toolkit
    toCall,      \* handler invocations still owed for the current emission
    calls,       \* invocations of on_activate so far
    hpc,         \* on_activate's position ("idle" when not running)
    window,      \* on_activate's local: index into windows (0 = none)
    webview,     \* on_activate's local: index into views   (0 = none)
    windows,     \* windows created, in creation order
    views,       \* web views created, in creation order
    loopStatus,  \* what g_application_run returned
    status,      \* main's local
    exitCode     \* what main returned

vars == <<argvIn, argc, argv, pc, gtkInits, apps, unrefs, handlers, runCalls,
          emitted, toCall, calls, hpc, window, webview, windows, views,
          loopStatus, status, exitCode>>

mainVars == <<argc, argv, pc, gtkInits, apps, unrefs, handlers, runCalls,
              loopStatus, status, exitCode>>
handlerVars == <<hpc, window, webview, windows, views, calls, toCall>>

Init ==
    /\ argvIn \in ArgvChoices
    /\ argv = argvIn
    /\ argc = Len(argvIn)
    /\ pc = "gtk_init"
    /\ gtkInits = 0
    /\ apps = <<>>
    /\ unrefs = 0
    /\ handlers = 0
    /\ runCalls = <<>>
    /\ emitted = 0
    /\ toCall = 0
    /\ calls = 0
    /\ hpc = "idle"
    /\ window = 0
    /\ webview = 0
    /\ windows = <<>>
    /\ views = <<>>
    /\ loopStatus = NoStatus
    /\ status = NoStatus
    /\ exitCode = NoStatus

\* ------------------------------------------------------------------ main

\* gtk_init() as a GTK3-style gtk_init(&argc, &argv) that consumes options
GtkInit_StripArgs ==
    /\ pc = "gtk_init"
    /\ gtkInits' = gtkInits + 1
    /\ argv' = SelectSeq(argv, LAMBDA a : a # "--verbose")
    /\ argc' = Len(argv')
    /\ pc' = "application_new"
    /\ UNCHANGED <<argvIn, apps, unrefs, handlers, runCalls, emitted,
                   loopStatus, status, exitCode>>
    /\ UNCHANGED handlerVars

\* line 5: gtk_init();
GtkInit ==
    /\ pc = "gtk_init"
    /\ gtkInits' = gtkInits + 1
    /\ pc' = "application_new"
    /\ UNCHANGED <<argvIn, argc, argv, apps, unrefs, handlers, runCalls,
                   emitted, loopStatus, status, exitCode>>
    /\ UNCHANGED handlerVars

\* line 7: app = gtk_application_new("com.urmt.FedoraAssistant", ...);
ApplicationNew ==
    /\ pc = "application_new"
    /\ apps' = Append(apps, [id |-> AppId, refs |-> 1])
    /\ pc' = "signal_connect"
    /\ UNCHANGED <<argvIn, argc, argv, gtkInits, unrefs, handlers, runCalls,
                   emitted, loopStatus, status, exitCode>>
    /\ UNCHANGED handlerVars

\* the connect forgotten: the loop starts with no handler
SignalConnect_Missing ==
    /\ pc = "signal_connect"
    /\ pc' = "application_run"
    /\ UNCHANGED <<argvIn, argc, argv, gtkInits, apps, unrefs, handlers,
                   runCalls, emitted, loopStatus, status, exitCode>>
    /\ UNCHANGED handlerVars

\* the handler connected twice
SignalConnect_Twice ==
    /\ pc = "signal_connect"
    /\ handlers' = handlers + 2
    /\ pc' = "application_run"
    /\ UNCHANGED <<argvIn, argc, argv, gtkInits, apps, unrefs, runCalls,
                   emitted, loopStatus, status, exitCode>>
    /\ UNCHANGED handlerVars

\* line 8: g_signal_connect(app, "activate", G_CALLBACK(on_activate), NULL);
SignalConnect ==
    /\ pc = "signal_connect"
    /\ handlers' = handlers + 1
    /\ pc' = "application_run"
    /\ UNCHANGED <<argvIn, argc, argv, gtkInits, apps, unrefs, runCalls,
                   emitted, loopStatus, status, exitCode>>
    /\ UNCHANGED handlerVars

\* line 10, the call: g_application_run(G_APPLICATION(app), argc, argv)
ApplicationRun ==
    /\ pc = "application_run"
    /\ runCalls' = Append(runCalls, [argc |-> argc, argv |-> argv])
    /\ pc' = "in_run"
    /\ UNCHANGED <<argvIn, argc, argv, gtkInits, apps, unrefs, handlers,
                   emitted, loopStatus, status, exitCode>>
    /\ UNCHANGED handlerVars

\* line 10, inside the call: the toolkit emits "activate" on the application;
\* every connected handler is owed one synchronous invocation
EmitActivate ==
    /\ pc = "in_run"
    /\ hpc = "idle"
    /\ toCall = 0
    /\ emitted < MaxActivations
    /\ emitted' = emitted + 1
    /\ toCall' = handlers
    /\ UNCHANGED <<argvIn, hpc, window, webview, windows, views, calls>>
    /\ UNCHANGED mainVars

\* line 10, the return: the loop ends and its status is assigned to `status`
ApplicationRunReturn ==
    /\ pc = "in_run"
    /\ hpc = "idle"
    /\ toCall = 0
    /\ \E s \in Statuses :
          /\ loopStatus' = s
          /\ status' = s
    /\ pc' = "object_unref"
    /\ UNCHANGED <<argvIn, argc, argv, gtkInits, apps, unrefs, handlers,
                   runCalls, emitted, exitCode>>
    /\ UNCHANGED handlerVars

\* the release left out
ObjectUnref_Skipped ==
    /\ pc = "object_unref"
    /\ pc' = "return"
    /\ UNCHANGED <<argvIn, argc, argv, gtkInits, apps, unrefs, handlers,
                   runCalls, emitted, loopStatus, status, exitCode>>
    /\ UNCHANGED handlerVars

\* line 11: g_object_unref(app);
ObjectUnref ==
    /\ pc = "object_unref"
    /\ unrefs' = unrefs + 1
    /\ apps' = [apps EXCEPT ![Len(apps)].refs = @ - 1]
    /\ pc' = "return"
    /\ UNCHANGED <<argvIn, argc, argv, gtkInits, handlers, runCalls, emitted,
                   loopStatus, status, exitCode>>
    /\ UNCHANGED handlerVars

\* return 0; instead of return status;
Return_Zero ==
    /\ pc = "return"
    /\ exitCode' = 0
    /\ pc' = "done"
    /\ UNCHANGED <<argvIn, argc, argv, gtkInits, apps, unrefs, handlers,
                   runCalls, emitted, loopStatus, status>>
    /\ UNCHANGED handlerVars

\* line 13: return status;
Return ==
    /\ pc = "return"
    /\ exitCode' = status
    /\ pc' = "done"
    /\ UNCHANGED <<argvIn, argc, argv, gtkInits, apps, unrefs, handlers,
                   runCalls, emitted, loopStatus, status>>
    /\ UNCHANGED handlerVars

\* ----------------------------------------------------------- on_activate

HandlerPositions == {"idle", "set_title", "set_default_size", "web_view_new",
                     "container_add", "load_uri", "show_all"}

NewWindow == [app |-> Len(apps), title |-> "", width |-> -1, height |-> -1,
              children |-> <<>>, visible |-> FALSE]
NewView == [parent |-> 0, loads |-> <<>>, outcome |-> "none",
            visible |-> FALSE]

\* a handler that keeps the first window and returns at once on a later
\* activation
WindowNew_Reuse ==
    /\ hpc = "idle"
    /\ toCall > 0
    /\ toCall' = toCall - 1
    /\ calls' = calls + 1
    /\ IF Len(windows) > 0
          THEN UNCHANGED <<windows, window, hpc>>
          ELSE /\ windows' = Append(windows, NewWindow)
               /\ window' = Len(windows) + 1
               /\ hpc' = "set_title"
    /\ UNCHANGED <<argvIn, emitted, webview, views>>
    /\ UNCHANGED mainVars

\* lines 16-18: the toolkit calls on_activate(app);
\* window = gtk_application_window_new(app);
WindowNew ==
    /\ hpc = "idle"
    /\ toCall > 0
    /\ toCall' = toCall - 1
    /\ calls' = calls + 1
    /\ windows' = Append(windows, NewWindow)
    /\ window' = Len(windows) + 1
    /\ hpc' = "set_title"
    /\ UNCHANGED <<argvIn, emitted, webview, views>>
    /\ UNCHANGED mainVars

\* the window shown as soon as it has its title
SetTitle_ShowEarly ==
    /\ hpc = "set_title"
    /\ windows' = [windows EXCEPT ![window].title = WindowTitle,
                                  ![window].visible = TRUE]
    /\ hpc' = "set_default_size"
    /\ UNCHANGED <<argvIn, emitted, window, webview, views, calls, toCall>>
    /\ UNCHANGED mainVars

\* line 19: gtk_window_set_title(GTK_WINDOW(window), "Fedora Assistant AI");
SetTitle ==
    /\ hpc = "set_title"
    /\ windows' = [windows EXCEPT ![window].title = WindowTitle]
    /\ hpc' = "set_default_size"
    /\ UNCHANGED <<argvIn, emitted, window, webview, views, calls, toCall>>
    /\ UNCHANGED mainVars

\* width and height exchanged
SetDefaultSize_Swapped ==
    /\ hpc = "set_default_size"
    /\ windows' = [windows EXCEPT ![window].width = DefaultHeight,
                                  ![window].height = DefaultWidth]
    /\ hpc' = "web_view_new"
    /\ UNCHANGED <<argvIn, emitted, window, webview, views, calls, toCall>>
    /\ UNCHANGED mainVars

\* line 20: gtk_window_set_default_size(GTK_WINDOW(window), 1200, 800);
SetDefaultSize ==
    /\ hpc = "set_default_size"
    /\ windows' = [windows EXCEPT ![window].width = DefaultWidth,
                                  ![window].height = DefaultHeight]
    /\ hpc' = "web_view_new"
    /\ UNCHANGED <<argvIn, emitted, window, webview, views, calls, toCall>>
    /\ UNCHANGED mainVars

\* line 23: webview = WEBKIT_WEB_VIEW(webkit_web_view_new());
WebViewNew ==
    /\ hpc = "web_view_new"
    /\ views' = Append(views, NewView)
    /\ webview' = Len(views) + 1
    /\ hpc' = "container_add"
    /\ UNCHANGED <<argvIn, emitted, window, windows, calls, toCall>>
    /\ UNCHANGED mainVars

\* line 24: gtk_container_add(GTK_CONTAINER(window), GTK_WIDGET(webview));
ContainerAdd ==
    /\ hpc = "container_add"
    /\ windows' = [windows EXCEPT ![window].children = Append(@, webview)]
    /\ views' = [views EXCEPT ![webview].parent = window]
    /\ hpc' = "load_uri"
    /\ UNCHANGED <<argvIn, emitted, window, webview, calls, toCall>>
    /\ UNCHANGED mainVars

\* the page to load taken from the first command-line argument when given
LoadUri_FromArgv ==
    /\ hpc = "load_uri"
    /\ \E o \in {"ok", "failed"} :
          views' = [views EXCEPT
                      ![webview].loads =
                          Append(@, IF argc > 1 THEN argv[2] ELSE BundleUri),
                      ![webview].outcome = o]
    /\ hpc' = "show_all"
    /\ UNCHANGED <<argvIn, emitted, window, webview, windows, calls, toCall>>
    /\ UNCHANGED mainVars

\* line 27: webkit_web_view_load_uri(webview, "file:///usr/share/...");
\* returns void; whether the file can be loaded is the web view's business
LoadUri ==
    /\ hpc = "load_uri"
    /\ \E o \in {"ok", "failed"} :
          views' = [views EXCEPT ![webview].loads = Append(@, BundleUri),
                                 ![webview].outcome = o]
    /\ hpc' = "show_all"
    /\ UNCHANGED <<argvIn, emitted, window, webview, windows, calls, toCall>>
    /\ UNCHANGED mainVars

\* what gtk_widget_show_all does to the widget tree rooted at window w
ShownWindows(w) == [windows EXCEPT ![w].visible = TRUE]
ShownViews(w) ==
    [v \in 1 .. Len(views) |->
        IF views[v].parent = w THEN [views[v] EXCEPT !.visible = TRUE]
                               ELSE views[v]]

\* the window shown only when the page could be loaded
ShowAll_OnlyIfLoaded ==
    /\ hpc = "show_all"
    /\ IF views[webview].outcome = "ok"
          THEN /\ windows' = ShownWindows(window)
               /\ views' = ShownViews(window)
          ELSE UNCHANGED <<windows, views>>
    /\ hpc' = "idle"
    /\ window' = 0
    /\ webview' = 0
    /\ UNCHANGED <<argvIn, emitted, calls, toCall>>
    /\ UNCHANGED mainVars

\* lines 29-30: gtk_widget_show_all(window); and on_activate returns
ShowAll ==
    /\ hpc = "show_all"
    /\ windows' = ShownWindows(window)
    /\ views' = ShownViews(window)
    /\ hpc' = "idle"
    /\ window' = 0
    /\ webview' = 0
    /\ UNCHANGED <<argvIn, emitted, calls, toCall>>
    /\ UNCHANGED mainVars

\* ------------------------------------------------------------ the system

Next ==
    \/ GtkInit
    \/ ApplicationNew
    \/ SignalConnect
    \/ ApplicationRun
    \/ EmitActivate
    \/ ApplicationRunReturn
    \/ ObjectUnref
    \/ Return
    \/ WindowNew
    \/ SetTitle
    \/ SetDefaultSize
    \/ WebViewNew
    \/ ContainerAdd
    \/ LoadUri
    \/ ShowAll

Spec == Init /\ [][Next]_vars

\* ------------------------------------------------------------ vocabulary

Range(s) == {s[i] : i \in 1 .. Len(s)}
MainPositions == {"gtk_init", "application_new", "signal_connect",
                  "application_run", "in_run", "object_unref", "return",
                  "done"}
LoopReturned == pc \in {"object_unref", "return", "done"}
HandlerIdle == hpc = "idle" /\ toCall = 0
Running == \E w \in 1 .. Len(windows) : windows[w].visible

TypeOK ==
    /\ pc \in MainPositions
    /\ hpc \in HandlerPositions
    /\ argvIn \in ArgvChoices
    /\ gtkInits \in Nat /\ unrefs \in Nat /\ handlers \in Nat
    /\ emitted \in 0 .. MaxActivations
    /\ calls \in Nat /\ toCall \in Nat
    /\ window \in 0 .. Len(windows)
    /\ webview \in 0 .. Len(views)
    /\ status \in Statuses \cup {NoStatus}
    /\ loopStatus \in Statuses \cup {NoStatus}
    /\ exitCode \in Statuses \cup {NoStatus}

\* a view the running handler invocation has created but not yet loaded
AwaitingLoad(v) == v = webview /\ hpc \in {"container_add", "load_uri"}
\* a window the running handler invocation has not yet finished building
UnderConstruction(w) == w = window /\ hpc # "idle"

\* ---------------------------------------------------------------- claims

\* C1: the process exit code returned by main equals the status returned by
\* the event loop's run call; between the loop's return and main's return
\* main's local status keeps that value.
C1_ExitCodeIsLoopStatus ==
    /\ LoopReturned => (loopStatus \in Statuses /\ status = loopStatus)
    /\ pc = "done" => exitCode = loopStatus
    /\ pc # "done" => exitCode = NoStatus
C1_Witness == pc = "done" /\ loopStatus = MaxStatus /\ exitCode = MaxStatus

\* C2: exactly one application instance is created and it is released
\* exactly once, after the event loop has returned and before main returns;
\* never while the loop runs and never twice.
C2_OneAppOneUnref ==
    /\ Len(apps) <= 1
    /\ unrefs <= 1
    /\ pc \notin {"gtk_init", "application_new"} => Len(apps) = 1
    /\ pc \in {"gtk_init", "application_new", "signal_connect",
               "application_run", "in_run", "object_unref"} => unrefs = 0
    /\ unrefs = 1 => (LoopReturned /\ loopStatus # NoStatus)
    /\ pc \in {"return", "done"} =>
          (unrefs = 1 /\ Len(apps) = 1 /\ apps[1].refs = 0)
    /\ \A a \in 1 .. Len(apps) : apps[a].id = AppId /\ apps[a].refs \in {0, 1}
C2_Witness == pc = "done" /\ unrefs = 1 /\ Len(apps) = 1 /\ emitted >= 1

C4_FixedUriLoadedOnce ==
    \A v \in 1 .. Len(views) :
        views[v].loads = IF AwaitingLoad(v) THEN <<>> ELSE <<BundleUri>>
C4_Witness ==
    /\ argc > 1
    /\ argv[2] = "file:///tmp/other.html"
    /\ HandlerIdle
    /\ Len(views) >= 1
    /\ views[1].loads = <<BundleUri>>
    /\ LoopReturned

\* C5: a visible window has the title "Fedora Assistant AI" and the default
\* size 1200x800, and once the title or the size of a window has been set no
\* step changes it.
C5_TitleAndSizeFixed ==
    /\ [](\A w \in 1 .. Len(windows) :
             windows[w].visible =>
                /\ windows[w].title = "Fedora Assistant AI"
                /\ windows[w].width = 1200
                /\ windows[w].height = 800)
    /\ [][\A w \in 1 .. Len(windows) :
             /\ windows[w].title # "" =>
                   windows'[w].title = windows[w].title
             /\ windows[w].width # -1 =>
                   /\ windows'[w].width = windows[w].width
                   /\ windows'[w].height = windows[w].height]_vars
C5_Witness ==
    /\ Len(windows) = 2
    /\ windows[1].visible /\ windows[2].visible
    /\ windows[2].title = WindowTitle
    /\ pc = "done"

\* C6: main passes argc and argv to g_application_run exactly as it received
\* them (nothing read, removed or rewritten before the call), it makes that
\* call once, and what the activation handler gives its window and web view
\* is never taken from the arguments.
C6_ArgsForwardedUnchanged ==
    /\ argv = argvIn
    /\ argc = Len(argvIn)
    /\ Len(runCalls) = (IF pc \in {"gtk_init", "application_new",
                                   "signal_connect", "application_run"}
                           THEN 0 ELSE 1)
    /\ \A r \in 1 .. Len(runCalls) :
          runCalls[r] = [argc |-> Len(argvIn), argv |-> argvIn]
    /\ \A w \in 1 .. Len(windows) : windows[w].title \notin Range(argvIn)
    /\ \A v \in 1 .. Len(views) :
          Range(views[v].loads) \cap Range(argvIn) = {}
C6_Witness ==
    /\ Len(runCalls) = 1
    /\ runCalls[1].argc = 2
    /\ runCalls[1].argv = <<ProgName, "--verbose">>
    /\ Running

\* C7: gtk_init is called exactly once and before the application instance
\* and any widget exists; exactly one activate handler is connected before
\* the event loop starts, so no activation is emitted with no handler.
C7_BootstrapOrder ==
    /\ gtkInits <= 1
    /\ (Len(apps) > 0 \/ Len(windows) > 0 \/ Len(views) > 0) => gtkInits = 1
    /\ pc # "gtk_init" => gtkInits = 1
    /\ handlers <= 1
    /\ handlers = 1 => Len(apps) = 1
    /\ (Len(runCalls) > 0 \/ emitted > 0 \/ calls > 0) => handlers = 1
C7_Witness == emitted >= 1 /\ calls >= 1 /\ handlers = 1 /\ gtkInits = 1

\* C8: whether the load of the fixed URI succeeds or fails, the handler
\* still shows the window and returns; it never repeats the load, and the
\* exit code is the loop's status whatever the load outcomes were.
C8_LoadOutcomeIgnored ==
    /\ \A v \in 1 .. Len(views) :
          /\ Len(views[v].loads) <= 1
          /\ (views[v].outcome # "none" /\ ~(v = webview)) =>
                /\ views[v].visible
                /\ views[v].parent \in 1 .. Len(windows)
                /\ windows[views[v].parent].visible
    /\ \A w \in 1 .. Len(windows) :
          ~UnderConstruction(w) => windows[w].visible
    /\ pc = "done" => exitCode = loopStatus
C8_Witness ==
    /\ pc = "done"
    /\ \E v \in 1 .. Len(views) :
          /\ views[v].outcome = "failed"
          /\ windows[views[v].parent].visible
    /\ exitCode = 0

\* C9: inside one handler invocation the window gets its title and size,
\* then the web view is created and attached as the sole child, then the
\* load is commanded, and only then is the window shown: a window is never
\* visible without an attached web view already told to load the fixed URI.
\* (The v-th web view is created by the v-th invocation, after the v-th
\* window, so it exists only once that window has its title and size.)
C9_HandlerStepOrder ==
    /\ \A w \in 1 .. Len(windows) :
          /\ windows[w].visible =>
                /\ windows[w].title = WindowTitle
                /\ windows[w].width = DefaultWidth
                /\ windows[w].height = DefaultHeight
                /\ Len(windows[w].children) = 1
                /\ views[windows[w].children[1]].loads = <<BundleUri>>
                /\ ~UnderConstruction(w)
          /\ windows[w].children # <<>> =>
                /\ windows[w].title = WindowTitle
                /\ windows[w].width = DefaultWidth
          /\ windows[w].width # -1 => windows[w].title = WindowTitle
          /\ Len(windows[w].children) <= 1
    /\ \A v \in 1 .. Len(views) :
          /\ views[v].loads # <<>> => views[v].parent # 0
          /\ views[v].parent # 0 =>
                windows[views[v].parent].children = <<v>>
          /\ v \in 1 .. Len(windows)
          /\ windows[v].title = WindowTitle
          /\ windows[v].width = DefaultWidth
C9_Witness ==
    /\ hpc = "show_all"
    /\ ~windows[window].visible
    /\ views[webview].loads = <<BundleUri>>
    /\ windows[window].children = <<webview>>
    /\ \E w \in 1 .. Len(windows) : windows[w].visible

\* C10: the handler has no guard and keeps no record of earlier
\* activations: after n activations the run holds exactly n windows and n
\* web views, window i holding web view i as its only child.
C10_OneWindowPerActivation ==
    /\ Len(windows) = calls
    /\ HandlerIdle =>
          /\ Len(windows) = emitted
          /\ Len(views) = emitted
          /\ \A i \in 1 .. emitted :
                /\ windows[i].children = <<i>>
                /\ views[i].parent = i
                /\ windows[i].visible
C10_Witness ==
    /\ HandlerIdle
    /\ emitted = MaxActivations
    /\ Len(windows) = MaxActivations
    /\ Len(views) = MaxActivations
    /\ LoopReturned

====
